---- MODULE Spec2Model ----
(***************************************************************************)
(* A model of toil's AbstractGridEngineBatchSystem: the facade            *)
(* (issueBatchJob, killBatchJobs, getUpdatedBatchJob,                     *)
(* getRunningBatchJobIDs, shutdown), its background Worker thread          *)
(* (run / killJobs / createJobs / checkOnJobs), the four queues between    *)
(* them, the with_retries wrapper and the external scheduler driver.       *)
(*                                                                         *)
(* Time is kept relative: instead of datetime.now() and a stored           *)
(* timestamp, the model keeps (now - timestamp) in whole seconds,          *)
(* saturating at statePollingWait, the only value it is compared with.     *)
(***************************************************************************)
EXTENDS Integers, Sequences, FiniteSets, TLC

\* ---------------------------------------------------------------- bounds
MaxJobs == 3            \* job IDs getNextJobID hands out: 1..MaxJobs
MaxLocalJobs == 1       \* config.maxLocalJobs, the concurrency ceiling
StatePollingWait == 1   \* config.statePollingWait, in seconds

\* ------------------------------------------------------- program constants
Retries == 3            \* with_retries: retries = 3

JobIDs == 1..MaxJobs
ExitCodes == {0}

None == <<>>            \* Python None in a slot that otherwise holds a tuple
NoJob == 0              \* Python None in a slot that otherwise holds a number
NoTimestamp == -1       \* Python None in a timestamp slot
Pending == -1           \* getJobExitCode's None: the job has no exit code yet

VARIABLES
    \* facade
    nextJobID,          \* getNextJobID's counter
    currentJobs,        \* self.currentJobs
    newJobsQueue,       \* self.newJobsQueue (None is the shutdown sentinel)
    updatedJobsQueue,   \* self.updatedJobsQueue: <<jobID, status>>
    killQueue,          \* self.killQueue: job IDs
    killedJobsQueue,    \* self.killedJobsQueue: job IDs
    shut,               \* shutdown() has set self.newJobsQueue = None
    inKill,             \* per job ID: the caller threads blocked in
                        \*   killBatchJobs' while loop with jobIDs = {ID}
    keyErrors,          \* caller threads that a KeyError threw out of killBatchJobs
    \* worker
    pc,                 \* position of Worker.run
    newJob,             \* run's local newJob
    waitingJobs,        \* self.waitingJobs: list of (jobID, cpu, memory, command)
    runningJobs,        \* self.runningJobs
    batchJobIDs,        \* self.batchJobIDs: jobID -> (batchJobID, task)
    killList,           \* killJobs' local killList
    checkOnJobsCache,   \* self._checkOnJobsCache: None, or <<activity>>
    checkOnJobsAge,     \* now - self._checkOnJobsTimestamp (NoTimestamp: None)
    runningJobsLock,    \* self.runningJobsLock is held (by the worker)
    curJob,             \* the jobID local of createJobs' loop body / forgetJob
    pollList,           \* what is left of checkOnJobs' list(self.runningJobs)
    activity,           \* checkOnJobs' local activity
    \* external scheduler (the driver's view)
    schedExit,          \* batch job ID -> exit code or Pending, for submitted jobs
    \* records of what was done, for the properties
    submitOrder,        \* job IDs in the order the driver's submit was invoked
    killCalls,          \* per job ID: invocations of the driver's killJob
    everUpdated,        \* job IDs ever put on updatedJobsQueue
    everKilled,         \* job IDs ever put on killedJobsQueue
    polled,             \* job IDs whose exit code killJobs' latest step queried
    admitDue,           \* the oldest waiting job when the latest poll freed a
                        \*   slot; negated once that job has been submitted
    submitFailures,     \* failed attempts of the driver's submit in the latest
                        \*   turn of createJobs' while loop
    \* getRunningBatchJobIDs and its poll cache
    getRunningCache,    \* self._getRunningBatchJobIDsCache
    getRunningAge,      \* now - self._getRunningBatchJobIDsTimestamp
    sinceCall,          \* seconds since the previous getRunningBatchJobIDs call
    listCalls,          \* driver list invocations of the latest call
    prevListCalls,      \* driver list invocations of the call before it
    listedLatest,       \* what the latest successful remote list returned
    localLatest,        \* getRunningLocalJobIDs() of the latest call
    \* with_retries on its own
    operation,          \* what each invocation of the wrapped operation does
    retryResult         \* what with_retries(operation) gave

vars == <<nextJobID, currentJobs, newJobsQueue, updatedJobsQueue, killQueue,
          killedJobsQueue, shut, inKill, keyErrors, pc, newJob,
          waitingJobs, runningJobs, batchJobIDs, killList, checkOnJobsCache,
          checkOnJobsAge, schedExit, submitOrder, killCalls, everUpdated,
          everKilled, polled, admitDue, getRunningCache, getRunningAge, sinceCall,
          listCalls, prevListCalls, operation, retryResult, runningJobsLock,
          curJob, pollList, activity, submitFailures, listedLatest,
          localLatest>>


\* ------------------------------------------------------------- helpers
Range(s) == {s[i] : i \in DOMAIN s}

Min(a, b) == IF a < b THEN a ELSE b

\* f[1] + ... + f[n]
RECURSIVE Sum(_, _)
Sum(f, n) == IF n = 0 THEN 0 ELSE f[n] + Sum(f, n - 1)

\* the orders in which a for loop may walk the set S
Orders(S) ==
    {s \in [1..Cardinality(S) -> S] : \A i, j \in DOMAIN s : i # j => s[i] # s[j]}

\* list.remove(x): drops the first element equal to x
RECURSIVE RemoveFirst(_, _)
RemoveFirst(s, x) ==
    IF s = <<>> THEN <<>>
    ELSE IF Head(s) = x THEN Tail(s)
    ELSE <<Head(s)>> \o RemoveFirst(Tail(s), x)

\* dict with key k deleted
DelKey(f, k) == [x \in DOMAIN f \ {k} |-> f[x]]

\* dict with f[k] = v set
SetKey(f, k, v) == [x \in DOMAIN f \cup {k} |-> IF x = k THEN v ELSE f[x]]

\* -------------------------------------------------------- with_retries
\* One invocation of the wrapped operation either returns a value
\* (kind "ok"), raises subprocess.CalledProcessError (kind "cpe", val the
\* error) or raises something else (kind "other").
Ok(v) == [kind |-> "ok", val |-> v]
Cpe(e) == [kind |-> "cpe", val |-> e]
Other(e) == [kind |-> "other", val |-> e]

\* the while loop of with_retries; calls counts the invocations made so far
RECURSIVE RetryLoop(_, _, _, _)
RetryLoop(retries, latest_err, calls, op) ==
    IF retries = 0
    THEN [raised |-> TRUE, val |-> latest_err, calls |-> calls]
    ELSE LET o == op[calls + 1]
         IN  IF o.kind = "ok"
             THEN [raised |-> FALSE, val |-> o.val, calls |-> calls + 1]
             ELSE IF o.kind = "cpe"
             THEN RetryLoop(retries - 1, o.val, calls + 1, op)
             ELSE [raised |-> TRUE, val |-> o.val, calls |-> calls + 1]

\* a wrapper that tries once more than it should
with_retries_once_more(op) == RetryLoop(Retries + 1, NoJob, 0, op)

\* a wrapper that returns None when it has run out of retries
with_retries_or_none(op) ==
    LET r == RetryLoop(Retries, NoJob, 0, op)
    IN  IF r.raised /\ r.calls = Retries
        THEN [r EXCEPT !.raised = FALSE, !.val = NoJob]
        ELSE r

with_retries(op) == RetryLoop(Retries, NoJob, 0, op)

\* retryResult before with_retries has been called
NotCalled == [raised |-> FALSE, val |-> NoJob, calls |-> 0]

\* A driver operation that fails with CalledProcessError on its first nfail
\* invocations and returns v afterwards.
MaxAttempts == Retries + 1
FailCounts == 0..Retries    \* a driver that may fail any number of times
NoFailure == {0}            \* a driver whose calls never fail
\* The worker keeps only whether with_retries returned or raised, and it
\* returns the same value after fewer than Retries failures as after none:
\* a driver that never fails or fails on every attempt
NeverOrAlways == {0, Retries}
DriverOutcomes(nfail, v) ==
    [i \in 1..MaxAttempts |-> IF i <= nfail THEN Cpe(i) ELSE Ok(v)]


\* --------------------------------------------------- variable groups
facadeVars == <<nextJobID, currentJobs, shut, inKill, keyErrors>>
queueVars == <<newJobsQueue, updatedJobsQueue, killQueue, killedJobsQueue>>
lockVars == <<runningJobsLock, curJob, pollList, activity>>
workerVars == <<pc, newJob, waitingJobs, runningJobs, batchJobIDs, killList,
                checkOnJobsCache, lockVars>>
recordVars == <<submitOrder, killCalls, everUpdated, everKilled, polled,
                admitDue, submitFailures>>
cacheVars == <<getRunningCache, getRunningAge, sinceCall, listCalls,
               prevListCalls, listedLatest, localLatest>>
retryVars == <<operation, retryResult>>

\* ----------------------------------------------------------- the driver
\* The job tuple issueBatchJob puts on the new-job queue:
\* (jobID, jobNode.cores, jobNode.memory, jobNode.command).
JobTuple(jobID) == <<jobID, 1, 1, "cmd">>

\* submitJob: the scheduler hands out its own job numbers, one per submission
SubmitJob(sched) == Cardinality(DOMAIN sched) + 1

\* getJobExitCode(batchJobID): the scheduler's answer for a batch system ID
\* (the job number is its first component)
GetJobExitCode(sched, batchSystemID) == sched[batchSystemID[1]]

\* Worker.getBatchSystemID: str(job), or str(job) + "." + str(task); the
\* RuntimeError for an unknown jobID is the guard KnownJobID of its callers
KnownJobID(batch, jobID) == jobID \in DOMAIN batch

GetBatchSystemID(batch, jobID) ==
    LET job == batch[jobID][1]
        task == batch[jobID][2]
    IN  IF task = NoJob THEN <<job>> ELSE <<job, task>>

\* the external scheduler finishes a submitted job with some exit code
JobFinishes ==
    /\ \E b \in DOMAIN schedExit, code \in ExitCodes :
          /\ schedExit[b] = Pending
          /\ schedExit' = [schedExit EXCEPT ![b] = code]
    /\ UNCHANGED <<facadeVars, queueVars, workerVars, checkOnJobsAge,
                   recordVars, cacheVars, retryVars>>

\* ------------------------------------------------------------- the clock
Older(age) ==
    IF age = NoTimestamp THEN NoTimestamp ELSE Min(age + 1, StatePollingWait)

\* one second passes
Tick ==
    /\ checkOnJobsAge' = Older(checkOnJobsAge)
    /\ getRunningAge' = Older(getRunningAge)
    /\ sinceCall' = Older(sinceCall)
    /\ <<checkOnJobsAge', getRunningAge', sinceCall'>>
          # <<checkOnJobsAge, getRunningAge, sinceCall>>
    /\ UNCHANGED <<facadeVars, queueVars, workerVars, schedExit, recordVars,
                   getRunningCache, listCalls, prevListCalls, listedLatest,
                   localLatest, retryVars>>


\* ------------------------------------------------------------ the facade
\* issueBatchJob, cluster path: getNextJobID, currentJobs.add, newJobsQueue.put
IssueBatchJob ==
    /\ ~shut
    /\ nextJobID <= MaxJobs
    /\ nextJobID' = nextJobID + 1
    /\ currentJobs' = currentJobs \cup {nextJobID}
    /\ newJobsQueue' = Append(newJobsQueue, JobTuple(nextJobID))
    /\ UNCHANGED <<shut, inKill, keyErrors, updatedJobsQueue, killQueue,
                   killedJobsQueue, workerVars, checkOnJobsAge, schedExit,
                   recordVars, cacheVars, retryVars>>

\* the job IDs issueBatchJob has returned so far
Issued == 1..(nextJobID - 1)

\* of so many caller threads, those neither inside killBatchJobs nor dead
FreeCallers(threads) ==
    threads - keyErrors - Sum([j \in JobIDs |-> inKill[j]], MaxJobs)

\* killBatchJobs({jobID}) up to its while loop: jobIDs = set(jobIDs) and
\* killQueue.put(jobID). Caller threads are told apart only by the job ID
\* they wait for.
KillBatchJobs(threads) ==
    /\ FreeCallers(threads) > 0
    /\ \E jobID \in Issued :
          /\ killQueue' = Append(killQueue, jobID)
          /\ inKill' = [inKill EXCEPT ![jobID] = @ + 1]
    /\ UNCHANGED <<nextJobID, currentJobs, shut, keyErrors, newJobsQueue,
                   updatedJobsQueue, killedJobsQueue, workerVars,
                   checkOnJobsAge, schedExit, recordVars, cacheVars, retryVars>>

\* one turn of the while loop of a killBatchJobs({jobID}) call:
\* killedJobsQueue.get() has returned. jobIDs.remove raises KeyError for an
\* ID this call did not ask for; with its own ID the call returns.
KillBatchJobsGet ==
    /\ killedJobsQueue # <<>>
    /\ \E jobID \in JobIDs :
          /\ inKill[jobID] > 0
          /\ LET killedJobId == Head(killedJobsQueue)
             IN  /\ killedJobsQueue' = Tail(killedJobsQueue)
                 /\ inKill' = [inKill EXCEPT ![jobID] = @ - 1]
                 /\ IF killedJobId = NoJob
                    THEN UNCHANGED <<keyErrors, currentJobs>>
                    ELSE IF killedJobId \notin {jobID}
                    THEN /\ keyErrors' = keyErrors + 1
                         /\ UNCHANGED currentJobs
                    ELSE /\ currentJobs' = currentJobs \ {killedJobId}
                         /\ UNCHANGED keyErrors
    /\ UNCHANGED <<nextJobID, shut, newJobsQueue, updatedJobsQueue, killQueue,
                   workerVars, checkOnJobsAge, schedExit, recordVars,
                   cacheVars, retryVars>>

\* getUpdatedBatchJob with an item on the updated-job queue (with none it
\* times out and changes nothing); currentJobs.remove raises KeyError for an
\* ID that is no longer issued, after the item has been taken
GetUpdatedBatchJob ==
    /\ updatedJobsQueue # <<>>
    /\ LET jobID == Head(updatedJobsQueue)[1]
       IN  /\ updatedJobsQueue' = Tail(updatedJobsQueue)
           /\ currentJobs' = currentJobs \ {jobID}
    /\ UNCHANGED <<nextJobID, shut, inKill, keyErrors, newJobsQueue, killQueue,
                   killedJobsQueue, workerVars, checkOnJobsAge, schedExit,
                   recordVars, cacheVars, retryVars>>

\* shutdown: self.newJobsQueue = None, then the sentinel is put on the queue
\* (worker.join() is waiting for pc = "done")
Shutdown ==
    /\ ~shut
    /\ shut' = TRUE
    /\ newJobsQueue' = Append(newJobsQueue, None)
    /\ UNCHANGED <<nextJobID, currentJobs, inKill, keyErrors, updatedJobsQueue,
                   killQueue, killedJobsQueue, workerVars, checkOnJobsAge,
                   schedExit, recordVars, cacheVars, retryVars>>


\* ------------------------------------------------------------ the worker
\* a loop that takes the sentinel for no entry at all
IsSentinelNever(entry) == FALSE

\* "if newJob is None" on an entry taken off the new-job queue
IsSentinel(entry) == entry = None

\* Worker.run, top of the loop: take one entry off the new-job queue if
\* there is one; the sentinel ends the loop
Run ==
    /\ pc = "run"
    /\ polled' = {}
    /\ IF newJobsQueue # <<>>
       THEN /\ newJob' = Head(newJobsQueue)
            /\ newJobsQueue' = Tail(newJobsQueue)
            /\ pc' = IF IsSentinel(newJob') THEN "done" ELSE "killJobs"
       ELSE /\ newJob' = None
            /\ pc' = "killJobs"
            /\ UNCHANGED newJobsQueue
    /\ UNCHANGED <<facadeVars, updatedJobsQueue, killQueue, killedJobsQueue,
                   waitingJobs, runningJobs, batchJobIDs, killList,
                   checkOnJobsCache, checkOnJobsAge, schedExit, submitOrder,
                   killCalls, everUpdated, everKilled, admitDue, cacheVars,
                   retryVars,
                   lockVars, submitFailures>>

\* Python's ==  between an entry of waitingJobs, a tuple
\* (jobID, cpu, memory, command), and a job ID taken off the kill queue, an
\* int: a tuple never equals an int
TupleEqualsInt(entry, jobID) == FALSE

\* "jobID in self.waitingJobs"
InWaitingJobs(waiting, jobID) ==
    \E i \in DOMAIN waiting : TupleEqualsInt(waiting[i], jobID)

\* "self.waitingJobs.remove(jobID)": drops the first entry equal to jobID
RECURSIVE WaitingRemove(_, _)
WaitingRemove(waiting, jobID) ==
    IF waiting = <<>> THEN <<>>
    ELSE IF TupleEqualsInt(Head(waiting), jobID) THEN Tail(waiting)
    ELSE <<Head(waiting)>> \o WaitingRemove(Tail(waiting), jobID)

\* a test that takes every job ID for a running one
IsRunningAlways(running, jobID) == TRUE

\* "jobID in self.runningJobs", the test of killJobs' for loop
IsRunning(running, jobID) == jobID \in running

\* killJobs, "Do the dirty job": the for loop over list(killList) from its
\* i-th entry on. st: the worker's waiting list and kill list, the killed
\* queue and the records, as the loop has left them so far.
RECURSIVE DirtyJob(_, _, _)
DirtyJob(snapshot, i, st) ==
    IF i > Len(snapshot) THEN st
    ELSE LET jobID == snapshot[i]
         IN  IF IsRunning(runningJobs, jobID)
             THEN DirtyJob(snapshot, i + 1,
                      [st EXCEPT !.killCalls[jobID] = @ + 1])
             ELSE DirtyJob(snapshot, i + 1,
                      [st EXCEPT
                         !.waitingJobs =
                             IF InWaitingJobs(@, jobID)
                             THEN WaitingRemove(@, jobID) ELSE @,
                         !.killedJobsQueue = Append(@, jobID),
                         !.everKilled = @ \cup {jobID},
                         !.killList = RemoveFirst(@, jobID)])

\* killJobs up to its confirmation loop: drain the kill queue, then the for
\* loop; with nothing to kill it returns False
KillJobs ==
    /\ pc = "killJobs"
    /\ polled' = {}
    /\ killQueue' = <<>>
    /\ LET st == DirtyJob(killQueue, 1,
                     [waitingJobs |-> waitingJobs, killList |-> killQueue,
                      killedJobsQueue |-> killedJobsQueue,
                      everKilled |-> everKilled, killCalls |-> killCalls])
       IN  /\ waitingJobs' = st.waitingJobs
           /\ killList' = st.killList
           /\ killedJobsQueue' = st.killedJobsQueue
           /\ everKilled' = st.everKilled
           /\ killCalls' = st.killCalls
    /\ pc' = IF killList' = <<>> THEN "createJobs" ELSE "killWait"
    /\ UNCHANGED <<facadeVars, newJobsQueue, updatedJobsQueue, newJob,
                   runningJobs, batchJobIDs, checkOnJobsCache, checkOnJobsAge,
                   schedExit, submitOrder, everUpdated, admitDue, cacheVars,
                   retryVars,
                   lockVars, submitFailures>>

\* a test that takes a pending job for a finished one
HasExitedAlways(status) == TRUE

\* "with_retries(self.getJobExitCode, batchJobID) is not None"
HasExited(status) == status # Pending

\* forgetJob on the worker's running set and handle map
ForgetJob(st, jobID) ==
    [st EXCEPT !.runningJobs = @ \ {jobID},
               !.batchJobIDs = DelKey(@, jobID)]

\* killJobs, "Wait to confirm the kill": one round of the for loop over
\* list(killList), from its i-th entry on. nfail[i]: how often the driver's
\* exit-code query for that entry fails before it answers. st.raised: an
\* exception has left the loop (and Worker.run); st.unknown: it is the
\* RuntimeError of getBatchSystemID.
RECURSIVE ConfirmRound(_, _, _, _)
ConfirmRound(snapshot, i, nfail, st) ==
    IF i > Len(snapshot) \/ st.raised THEN st
    ELSE LET jobID == snapshot[i]
         IN  IF ~KnownJobID(st.batchJobIDs, jobID)
             THEN [st EXCEPT !.raised = TRUE, !.unknown = TRUE]
             ELSE LET batchJobID == GetBatchSystemID(st.batchJobIDs, jobID)
                      status == with_retries(DriverOutcomes(nfail[i],
                                    GetJobExitCode(schedExit, batchJobID)))
                      asked == [st EXCEPT !.polled = @ \cup {jobID}]
                  IN  IF status.raised
                      THEN [asked EXCEPT !.raised = TRUE]
                      ELSE IF HasExited(status.val)
                      THEN ConfirmRound(snapshot, i + 1, nfail,
                              ForgetJob(
                                 [asked EXCEPT
                                    !.killedJobsQueue = Append(@, jobID),
                                    !.everKilled = @ \cup {jobID},
                                    !.killList = RemoveFirst(@, jobID)],
                                 jobID))
                      ELSE ConfirmRound(snapshot, i + 1, nfail, asked)

KillWait(failCounts) ==
    /\ pc = "killWait"
    /\ \E nfail \in [DOMAIN killList -> failCounts] :
          LET st == ConfirmRound(killList, 1, nfail,
                       [killList |-> killList,
                        killedJobsQueue |-> killedJobsQueue,
                        everKilled |-> everKilled, polled |-> {},
                        runningJobs |-> runningJobs,
                        batchJobIDs |-> batchJobIDs, raised |-> FALSE,
                        unknown |-> FALSE])
          IN  /\ killList' = st.killList
              /\ killedJobsQueue' = st.killedJobsQueue
              /\ everKilled' = st.everKilled
              /\ polled' = st.polled
              /\ runningJobs' = st.runningJobs
              /\ batchJobIDs' = st.batchJobIDs
              /\ pc' = IF st.unknown THEN "unknownJobID"
                       ELSE IF st.raised THEN "raised"
                       ELSE IF st.killList = <<>> THEN "createJobs"
                       ELSE "killWait"
    /\ UNCHANGED <<facadeVars, newJobsQueue, updatedJobsQueue, killQueue,
                   newJob, waitingJobs, checkOnJobsCache, checkOnJobsAge,
                   schedExit, submitOrder, killCalls, everUpdated, admitDue,
                   cacheVars, retryVars,
                   lockVars, submitFailures>>


\* createJobs up to its while loop: "Load new job id if present"
CreateJobs ==
    /\ pc = "createJobs"
    /\ polled' = {}
    /\ waitingJobs' =
          IF newJob # None THEN Append(waitingJobs, newJob) ELSE waitingJobs
    /\ pc' = "admit"
    /\ UNCHANGED <<facadeVars, queueVars, newJob, runningJobs, batchJobIDs,
                   killList, checkOnJobsCache, checkOnJobsAge, schedExit,
                   submitOrder, killCalls, everUpdated, everKilled, admitDue,
                   cacheVars, retryVars,
                   lockVars, submitFailures>>

\* a while condition that keeps one slot free
MayLaunchOneLess(waiting, running) ==
    Len(waiting) > 0 /\ Cardinality(running) < MaxLocalJobs - 1

\* a while condition that lets one job too many through
MayLaunchOneMore(waiting, running) ==
    Len(waiting) > 0 /\ Cardinality(running) <= MaxLocalJobs

\* the condition of createJobs' while loop
MayLaunch(waiting, running) ==
    Len(waiting) > 0 /\ Cardinality(running) < MaxLocalJobs

\* pop() in place of pop(0): the newest entry is taken
PopNewest(waiting) ==
    [entry |-> waiting[Len(waiting)],
     rest |-> SubSeq(waiting, 1, Len(waiting) - 1)]

\* "self.waitingJobs.pop(0)": the entry taken and the list left
PopWaiting(waiting) == [entry |-> Head(waiting), rest |-> Tail(waiting)]

\* one turn of createJobs' while loop (or its end): pop the oldest waiting
\* job, submit it through with_retries, record its handle, add it to the
\* running set. nfail: how often the driver's submit fails before it works.
Admit(failCounts) ==
    /\ pc = "admit"
    /\ polled' = {}
    /\ IF MayLaunch(waitingJobs, runningJobs)
       THEN LET popped == PopWaiting(waitingJobs)
                jobID == popped.entry[1]
            IN  /\ waitingJobs' = popped.rest
                /\ submitOrder' = Append(submitOrder, jobID)
                /\ admitDue' = IF admitDue = jobID THEN -jobID ELSE admitDue
                /\ \E nfail \in failCounts :
                      LET batchJobID == with_retries(
                              DriverOutcomes(nfail, SubmitJob(schedExit)))
                      IN  /\ submitFailures' = nfail
                          /\ IF batchJobID.raised
                             THEN /\ pc' = "raised"
                                  /\ UNCHANGED <<schedExit, batchJobIDs,
                                                 runningJobs>>
                             ELSE /\ schedExit' = SetKey(schedExit,
                                        batchJobID.val, Pending)
                                  /\ batchJobIDs' = SetKey(batchJobIDs, jobID,
                                        <<batchJobID.val, NoJob>>)
                                  /\ runningJobs' = runningJobs \cup {jobID}
                                  /\ pc' = "admit"
       ELSE /\ pc' = "checkOnJobs"
            /\ UNCHANGED <<waitingJobs, submitOrder, admitDue, schedExit,
                           batchJobIDs, runningJobs, submitFailures>>
    /\ UNCHANGED <<facadeVars, queueVars, newJob, killList, checkOnJobsCache,
                   checkOnJobsAge, killCalls, everUpdated, everKilled,
                   cacheVars, retryVars, lockVars>>

\* a throttle that never looks at the age of the timestamp
ThrottledOnceStamped(age) == age # NoTimestamp

\* the throttle of checkOnJobs: a timestamp less than statePollingWait old
Throttled(age) == age # NoTimestamp /\ age < StatePollingWait

\* checkOnJobs' for loop over list(self.runningJobs), walked in the order
\* snapshot, from its i-th entry on
RECURSIVE PollRound(_, _, _, _)
PollRound(snapshot, i, nfail, st) ==
    IF i > Len(snapshot) \/ st.raised THEN st
    ELSE LET jobID == snapshot[i]
         IN  IF ~KnownJobID(st.batchJobIDs, jobID)
             THEN [st EXCEPT !.raised = TRUE, !.unknown = TRUE]
             ELSE LET batchJobID == GetBatchSystemID(st.batchJobIDs, jobID)
                      status == with_retries(DriverOutcomes(nfail[i],
                                    GetJobExitCode(schedExit, batchJobID)))
                  IN  IF status.raised
                      THEN [st EXCEPT !.raised = TRUE]
                      ELSE IF HasExited(status.val)
                      THEN PollRound(snapshot, i + 1, nfail,
                              ForgetJob(
                                 [st EXCEPT
                                    !.activity = TRUE,
                                    !.updatedJobsQueue =
                                        Append(@, <<jobID, status.val>>),
                                    !.everUpdated = @ \cup {jobID}],
                                 jobID))
                      ELSE PollRound(snapshot, i + 1, nfail, st)

\* checkOnJobs: the cached answer inside the throttle window, a poll of every
\* running job otherwise
CheckOnJobs(failCounts) ==
    /\ pc = "checkOnJobs"
    /\ IF Throttled(checkOnJobsAge)
       THEN /\ pc' = "run"
            /\ polled' = {}
            /\ UNCHANGED <<updatedJobsQueue, everUpdated, runningJobs,
                           batchJobIDs, checkOnJobsCache, checkOnJobsAge,
                           admitDue>>
       ELSE \E snapshot \in Orders(runningJobs) :
            \E nfail \in [DOMAIN snapshot -> failCounts] :
               LET st == PollRound(snapshot, 1, nfail,
                            [updatedJobsQueue |-> updatedJobsQueue,
                             everUpdated |-> everUpdated,
                             runningJobs |-> runningJobs,
                             batchJobIDs |-> batchJobIDs,
                             activity |-> FALSE, raised |-> FALSE,
                             unknown |-> FALSE])
               IN  /\ updatedJobsQueue' = st.updatedJobsQueue
                   /\ everUpdated' = st.everUpdated
                   /\ polled' = {}
                   /\ runningJobs' = st.runningJobs
                   /\ batchJobIDs' = st.batchJobIDs
                   /\ IF st.raised
                      THEN /\ pc' = IF st.unknown THEN "unknownJobID"
                                    ELSE "raised"
                           /\ UNCHANGED <<checkOnJobsCache, checkOnJobsAge,
                                          admitDue>>
                      ELSE /\ pc' = "run"
                           /\ checkOnJobsCache' = <<st.activity>>
                           /\ checkOnJobsAge' = 0
                           /\ admitDue' =
                                 IF st.activity /\ waitingJobs # <<>>
                                 THEN Head(waitingJobs)[1] ELSE NoJob
    /\ UNCHANGED <<facadeVars, newJobsQueue, killQueue, killedJobsQueue,
                   newJob, waitingJobs, killList, schedExit, submitOrder,
                   killCalls, everKilled, cacheVars, retryVars,
                   lockVars, submitFailures>>

\* ------------------------------------------------------ the specification
\* the state __init__ leaves, the records empty
InitSystem ==
    /\ nextJobID = 1
    /\ currentJobs = {}
    /\ newJobsQueue = <<>>
    /\ updatedJobsQueue = <<>>
    /\ killQueue = <<>>
    /\ killedJobsQueue = <<>>
    /\ shut = FALSE
    /\ inKill = [j \in JobIDs |-> 0]
    /\ keyErrors = 0
    /\ pc = "run"
    /\ newJob = None
    /\ waitingJobs = <<>>
    /\ runningJobs = {}
    /\ batchJobIDs = <<>>
    /\ killList = <<>>
    /\ checkOnJobsCache = None
    /\ checkOnJobsAge = NoTimestamp
    /\ schedExit = <<>>
    /\ submitOrder = <<>>
    /\ killCalls = [j \in JobIDs |-> 0]
    /\ everUpdated = {}
    /\ everKilled = {}
    /\ polled = {}
    /\ admitDue = NoJob
    /\ getRunningCache = {}
    /\ getRunningAge = NoTimestamp
    /\ sinceCall = NoTimestamp
    /\ listCalls = 0
    /\ prevListCalls = 0
    /\ retryResult = NotCalled
    /\ runningJobsLock = FALSE
    /\ curJob = NoJob
    /\ pollList = <<>>
    /\ activity = FALSE
    /\ submitFailures = 0
    /\ listedLatest = {}
    /\ localLatest = {}

Init ==
    /\ InitSystem
    /\ operation = <<>>

Worker ==
    \/ Run
    \/ KillJobs
    \/ KillWait(NeverOrAlways)
    \/ CreateJobs
    \/ Admit(NeverOrAlways)
    \/ CheckOnJobs(NeverOrAlways)

\* The batch system at work, before shutdown: any interleaving of facade
\* calls, worker steps, the scheduler and the clock, with one caller thread
\* at a time inside killBatchJobs.
Next ==
    \/ IssueBatchJob
    \/ KillBatchJobs(1)
    \/ KillBatchJobsGet
    \/ GetUpdatedBatchJob
    \/ Worker
    \/ JobFinishes
    \/ Tick

Spec == Init /\ [][Next]_vars

\* the same with two caller threads that may be inside killBatchJobs at once
ConcurrentNext ==
    \/ IssueBatchJob
    \/ KillBatchJobs(2)
    \/ KillBatchJobsGet
    \/ GetUpdatedBatchJob
    \/ Worker
    \/ JobFinishes
    \/ Tick

ConcurrentSpec == Init /\ [][ConcurrentNext]_vars

\* killBatchJobs({jobID}) while no other call in progress asked for jobID:
\* the calls in progress at any time are on disjoint sets
KillBatchJobsDisjoint(threads) ==
    /\ KillBatchJobs(threads)
    /\ \A jobID \in JobIDs : inKill'[jobID] <= 1

\* two caller threads whose concurrent killBatchJobs calls are on disjoint
\* sets of job IDs
DisjointNext ==
    \/ IssueBatchJob
    \/ KillBatchJobsDisjoint(2)
    \/ KillBatchJobsGet
    \/ GetUpdatedBatchJob
    \/ Worker
    \/ JobFinishes
    \/ Tick

DisjointSpec == Init /\ [][DisjointNext]_vars

\* the same as Spec with shutdown() among the facade calls
NextShutdown == Next \/ Shutdown

ShutdownSpec == Init /\ [][NextShutdown]_vars

\* No kill requests, a driver whose calls never fail and a scheduler that
\* finishes every job; the worker thread, the scheduler and the clock keep
\* going.
LiveWorker ==
    \/ Run
    \/ KillJobs
    \/ CreateJobs
    \/ Admit(NoFailure)
    \/ CheckOnJobs(NoFailure)

LiveNext ==
    \/ IssueBatchJob
    \/ GetUpdatedBatchJob
    \/ LiveWorker
    \/ JobFinishes
    \/ Tick

LiveSpec ==
    /\ Init
    /\ [][LiveNext]_vars
    /\ WF_vars(LiveWorker)
    /\ WF_vars(JobFinishes)
    /\ WF_vars(Tick)

\* Shutdown with kill requests: a driver whose calls never fail and a
\* scheduler that finishes every job, so that every kill is confirmed in the
\* end; the worker thread and the scheduler keep going. getUpdatedBatchJob
\* is left out: it takes from the updated-job queue, which the worker only
\* writes. The clock is left out: checkOnJobs returns to the top of the loop
\* whether it polls or not, and slots are freed by confirmed kills.
ShutdownWorker ==
    \/ Run
    \/ KillJobs
    \/ KillWait(NoFailure)
    \/ CreateJobs
    \/ Admit(NoFailure)
    \/ CheckOnJobs(NoFailure)

LiveShutdownNext ==
    \/ IssueBatchJob
    \/ KillBatchJobs(1)
    \/ KillBatchJobsGet
    \/ Shutdown
    \/ ShutdownWorker
    \/ JobFinishes

LiveShutdownSpec ==
    /\ Init
    /\ [][LiveShutdownNext]_vars
    /\ WF_vars(ShutdownWorker)
    /\ WF_vars(JobFinishes)

\* ------------------------------ the worker, statement by statement
\* createJobs' while loop and checkOnJobs with forgetJob, one action per
\* statement that reads or writes runningJobs, batchJobIDs or
\* runningJobsLock; a driver whose calls never fail.

\* the handle the latest submit returned
LatestHandle(sched) == Cardinality(DOMAIN sched)

\* createJobs, lines 130-138: the while condition, pop(0) and the submit
AdmitSubmit ==
    /\ pc = "admit"
    /\ IF MayLaunch(waitingJobs, runningJobs)
       THEN LET popped == PopWaiting(waitingJobs)
                jobID == popped.entry[1]
            IN  /\ waitingJobs' = popped.rest
                /\ curJob' = jobID
                /\ submitOrder' = Append(submitOrder, jobID)
                /\ admitDue' = IF admitDue = jobID THEN -jobID ELSE admitDue
                /\ submitFailures' = 0
                /\ schedExit' =
                      SetKey(schedExit, SubmitJob(schedExit), Pending)
                /\ pc' = "store"
       ELSE /\ pc' = "checkOnJobs"
            /\ UNCHANGED <<waitingJobs, curJob, submitOrder, admitDue,
                           submitFailures, schedExit>>
    /\ UNCHANGED <<facadeVars, queueVars, newJob, runningJobs, batchJobIDs,
                   killList, checkOnJobsCache, checkOnJobsAge, runningJobsLock,
                   pollList, activity, killCalls, everUpdated, everKilled,
                   polled, cacheVars, retryVars>>

\* what a step between two statements of the worker leaves alone
StatementFrame ==
    UNCHANGED <<facadeVars, newJobsQueue, killQueue, killedJobsQueue, newJob,
                waitingJobs, killList, schedExit, submitOrder, killCalls,
                everKilled, polled, submitFailures, cacheVars, retryVars>>

\* createJobs, line 145: self.batchJobIDs[jobID] = (batchJobID, None)
StoreHandle ==
    /\ pc = "store"
    /\ batchJobIDs' =
          SetKey(batchJobIDs, curJob, <<LatestHandle(schedExit), NoJob>>)
    /\ pc' = "acquireAdd"
    /\ StatementFrame
    /\ UNCHANGED <<updatedJobsQueue, everUpdated, runningJobs, runningJobsLock,
                   curJob, pollList, activity, checkOnJobsCache,
                   checkOnJobsAge, admitDue>>

\* createJobs, line 148: with self.runningJobsLock
AcquireForAdd ==
    /\ pc = "acquireAdd"
    /\ ~runningJobsLock
    /\ runningJobsLock' = TRUE
    /\ pc' = "add"
    /\ StatementFrame
    /\ UNCHANGED <<updatedJobsQueue, everUpdated, runningJobs, batchJobIDs,
                   curJob, pollList, activity, checkOnJobsCache,
                   checkOnJobsAge, admitDue>>

\* createJobs, line 149: self.runningJobs.add(jobID)
AddRunning ==
    /\ pc = "add"
    /\ runningJobs' = runningJobs \cup {curJob}
    /\ pc' = "releaseAdd"
    /\ StatementFrame
    /\ UNCHANGED <<updatedJobsQueue, everUpdated, batchJobIDs, runningJobsLock,
                   curJob, pollList, activity, checkOnJobsCache,
                   checkOnJobsAge, admitDue>>

\* createJobs: the end of the with block, back to the while condition
ReleaseAfterAdd ==
    /\ pc = "releaseAdd"
    /\ runningJobsLock' = FALSE
    /\ curJob' = NoJob
    /\ pc' = "admit"
    /\ StatementFrame
    /\ UNCHANGED <<updatedJobsQueue, everUpdated, runningJobs, batchJobIDs,
                   pollList, activity, checkOnJobsCache, checkOnJobsAge,
                   admitDue>>

\* checkOnJobs, lines 203-208: the throttle, activity = False and
\* list(self.runningJobs)
PollStart ==
    /\ pc = "checkOnJobs"
    /\ IF Throttled(checkOnJobsAge)
       THEN /\ pc' = "run"
            /\ UNCHANGED <<pollList, activity>>
       ELSE /\ pollList' \in Orders(runningJobs)
            /\ activity' = FALSE
            /\ pc' = "poll"
    /\ StatementFrame
    /\ UNCHANGED <<updatedJobsQueue, everUpdated, runningJobs, batchJobIDs,
                   runningJobsLock, curJob, checkOnJobsCache, checkOnJobsAge,
                   admitDue>>

\* checkOnJobs, lines 209-213: the exit-code query for the next job of the
\* list and, for a finished job, the report; forgetJob follows
PollJob ==
    /\ pc = "poll"
    /\ pollList # <<>>
    /\ LET jobID == Head(pollList)
       IN  IF ~KnownJobID(batchJobIDs, jobID)
           THEN /\ pc' = "unknownJobID"
                /\ UNCHANGED <<updatedJobsQueue, everUpdated, curJob, pollList,
                               activity>>
           ELSE LET batchJobID == GetBatchSystemID(batchJobIDs, jobID)
                    status == GetJobExitCode(schedExit, batchJobID)
                IN  IF HasExited(status)
                    THEN /\ activity' = TRUE
                         /\ updatedJobsQueue' =
                               Append(updatedJobsQueue, <<jobID, status>>)
                         /\ everUpdated' = everUpdated \cup {jobID}
                         /\ curJob' = jobID
                         /\ pc' = "acquireRemove"
                         /\ UNCHANGED pollList
                    ELSE /\ pollList' = Tail(pollList)
                         /\ pc' = "poll"
                         /\ UNCHANGED <<updatedJobsQueue, everUpdated, curJob,
                                        activity>>
    /\ StatementFrame
    /\ UNCHANGED <<runningJobs, batchJobIDs, runningJobsLock, checkOnJobsCache,
                   checkOnJobsAge, admitDue>>

\* forgetJob, line 113: with self.runningJobsLock
AcquireForRemove ==
    /\ pc = "acquireRemove"
    /\ ~runningJobsLock
    /\ runningJobsLock' = TRUE
    /\ pc' = "remove"
    /\ StatementFrame
    /\ UNCHANGED <<updatedJobsQueue, everUpdated, runningJobs, batchJobIDs,
                   curJob, pollList, activity, checkOnJobsCache,
                   checkOnJobsAge, admitDue>>

\* forgetJob, line 114: self.runningJobs.remove(jobID)
RemoveRunning ==
    /\ pc = "remove"
    /\ runningJobs' = runningJobs \ {curJob}
    /\ pc' = "releaseRemove"
    /\ StatementFrame
    /\ UNCHANGED <<updatedJobsQueue, everUpdated, batchJobIDs, runningJobsLock,
                   curJob, pollList, activity, checkOnJobsCache,
                   checkOnJobsAge, admitDue>>

\* forgetJob: the end of the with block
ReleaseAfterRemove ==
    /\ pc = "releaseRemove"
    /\ runningJobsLock' = FALSE
    /\ pc' = "del"
    /\ StatementFrame
    /\ UNCHANGED <<updatedJobsQueue, everUpdated, runningJobs, batchJobIDs,
                   curJob, pollList, activity, checkOnJobsCache,
                   checkOnJobsAge, admitDue>>

\* forgetJob, line 115: del self.batchJobIDs[jobID]; on to the next job
DelHandle ==
    /\ pc = "del"
    /\ batchJobIDs' = DelKey(batchJobIDs, curJob)
    /\ curJob' = NoJob
    /\ pollList' = Tail(pollList)
    /\ pc' = "poll"
    /\ StatementFrame
    /\ UNCHANGED <<updatedJobsQueue, everUpdated, runningJobs, runningJobsLock,
                   activity, checkOnJobsCache, checkOnJobsAge, admitDue>>

\* checkOnJobs, lines 215-217: the cache, the timestamp, return
PollEnd ==
    /\ pc = "poll"
    /\ pollList = <<>>
    /\ checkOnJobsCache' = <<activity>>
    /\ checkOnJobsAge' = 0
    /\ admitDue' = IF activity /\ waitingJobs # <<>>
                   THEN Head(waitingJobs)[1] ELSE NoJob
    /\ pc' = "run"
    /\ StatementFrame
    /\ UNCHANGED <<updatedJobsQueue, everUpdated, runningJobs, batchJobIDs,
                   runningJobsLock, curJob, pollList, activity>>

StatementWorker ==
    \/ Run
    \/ KillJobs
    \/ CreateJobs
    \/ AdmitSubmit
    \/ StoreHandle
    \/ AcquireForAdd
    \/ AddRunning
    \/ ReleaseAfterAdd
    \/ PollStart
    \/ PollJob
    \/ AcquireForRemove
    \/ RemoveRunning
    \/ ReleaseAfterRemove
    \/ DelHandle
    \/ PollEnd

\* no kill requests; the facade, the scheduler and the clock may act
\* between any two statements of the worker
StatementNext ==
    \/ IssueBatchJob
    \/ GetUpdatedBatchJob
    \/ StatementWorker
    \/ JobFinishes
    \/ Tick

StatementSpec == Init /\ [][StatementNext]_vars

\* ------------------------------------------- with_retries on its own
\* what one invocation of a wrapped operation may do
Outcomes ==
    {Ok(v) : v \in {0, 1}} \cup {Cpe(e) : e \in {1, 2}} \cup {Other(3)}

RetryInit ==
    /\ InitSystem
    /\ operation \in [1..MaxAttempts -> Outcomes]

\* with_retries(operation)
CallWithRetries ==
    /\ retryResult = NotCalled
    /\ retryResult' = with_retries(operation)
    /\ UNCHANGED <<facadeVars, queueVars, workerVars, checkOnJobsAge,
                   schedExit, recordVars, cacheVars, operation>>

RetrySpec == RetryInit /\ [][CallWithRetries]_vars

\* ------------------------------------- getRunningBatchJobIDs on its own
\* job IDs the local-execution collaborator may report as running
LocalJobIDs == {MaxJobs + 1}

\* a cache that is never taken for valid
CacheValidNever(age) == FALSE

\* the poll cache may be read: there is a timestamp and it is less than
\* statePollingWait old
CacheValid(age) == age # NoTimestamp /\ age < StatePollingWait

\* getRunningBatchJobIDs. listed: what the driver's getRunningJobIDs answers;
\* nfail: how often it fails first; local: getRunningLocalJobIDs().
\* batchIds.update(local) changes the very set the cache holds, which is
\* also the set the call returns.
GetRunningBatchJobIDs ==
    /\ \E local \in SUBSET LocalJobIDs :
          IF CacheValid(getRunningAge)
          THEN /\ getRunningCache' = getRunningCache \cup local
               /\ listCalls' = 0
               /\ localLatest' = local
               /\ UNCHANGED <<getRunningAge, listedLatest>>
          ELSE \E listed \in SUBSET JobIDs, nfail \in FailCounts :
                  LET batchIds == with_retries(DriverOutcomes(nfail, listed))
                  IN  /\ listCalls' = batchIds.calls
                      /\ IF batchIds.raised
                         THEN UNCHANGED <<getRunningCache, getRunningAge,
                                          listedLatest, localLatest>>
                         ELSE /\ getRunningCache' = batchIds.val \cup local
                              /\ getRunningAge' = 0
                              /\ listedLatest' = batchIds.val
                              /\ localLatest' = local
    /\ sinceCall' = 0
    /\ prevListCalls' = listCalls
    /\ UNCHANGED <<facadeVars, queueVars, workerVars, checkOnJobsAge,
                   schedExit, recordVars, retryVars>>

CacheNext == GetRunningBatchJobIDs \/ Tick

CacheSpec == Init /\ [][CacheNext]_vars

\* ================================================================ claims
\* the job IDs of the entries of a list of job tuples
WaitingIDs(waiting) == {waiting[i][1] : i \in DOMAIN waiting}

\* C1: in every reachable state the running set holds at most maxLocalJobs
\* job IDs, whatever burst of jobs was issued.
C1_RunningWithinCeiling == Cardinality(runningJobs) <= MaxLocalJobs

\* C1's case: the ceiling is reached while issued jobs are still waiting
C1_Witness ==
    /\ Cardinality(runningJobs) = MaxLocalJobs
    /\ waitingJobs # <<>>
    /\ newJobsQueue # <<>>

\* C2: the driver's submit is invoked in the order the jobs were put on the
\* new-job queue. issueBatchJob hands out increasing job IDs in the order it
\* enqueues them, so: the submitted job IDs increase.
C2_SubmitFifo ==
    \A i, j \in DOMAIN submitOrder : i < j => submitOrder[i] < submitOrder[j]

\* C2's case: three jobs submitted one after the other under a ceiling that
\* made the later ones wait together
C2_Witness ==
    /\ Len(submitOrder) >= 3
    /\ Len(waitingJobs) + Len(newJobsQueue) = 0

\* C3: no job ID is both reported complete on the updated-job queue and
\* confirmed on the killed-confirmation queue.
C3_OneTerminalCategory == everUpdated \cap everKilled = {}

\* C4: after the worker's kill step has handled a request for a job ID that
\* is in the waiting list, the waiting list has no entry for that job ID.
C4_KilledLeavesWaiting ==
    [][\A jobID \in JobIDs :
          (/\ pc = "killJobs"
           /\ pc' # "killJobs"
           /\ jobID \in Range(killQueue)
           /\ jobID \in WaitingIDs(waitingJobs))
          => jobID \notin WaitingIDs(waitingJobs')]_vars

\* how often x occurs in the list s
RECURSIVE Count(_, _)
Count(s, x) ==
    IF s = <<>> THEN 0
    ELSE (IF Head(s) = x THEN 1 ELSE 0) + Count(Tail(s), x)

\* the worker takes the step of killJobs that drains the kill queue
KillJobsStep == pc = "killJobs" /\ pc' # "killJobs"

\* the entries a step has appended to the killed-confirmation queue
NewlyKilled ==
    IF Len(killedJobsQueue') > Len(killedJobsQueue)
    THEN {killedJobsQueue'[i] :
             i \in (Len(killedJobsQueue) + 1)..Len(killedJobsQueue')}
    ELSE {}

\* C5: a kill request for a job ID that is not in the running set when the
\* worker handles it makes no call to the driver's kill and no exit-code
\* query, and puts the ID on the killed-confirmation queue; the confirmation
\* at the head of that queue is the one the blocked caller waits for, and
\* taking it ends the caller's killBatchJobs without an error and with the
\* ID out of the issued set.
C5_KillNotRunning ==
    /\ [][\A jobID \in JobIDs :
             (/\ KillJobsStep
              /\ jobID \in Range(killQueue)
              /\ jobID \notin runningJobs)
             => /\ killCalls'[jobID] = killCalls[jobID]
                /\ polled' = {}
                /\ Count(killedJobsQueue', jobID)
                      = Count(killedJobsQueue, jobID) + Count(killQueue, jobID)
                /\ jobID \notin Range(killList')]_vars
    /\ [](\A jobID \in JobIDs :
             (inKill[jobID] > 0 /\ killedJobsQueue # <<>>)
             => Head(killedJobsQueue) = jobID)
    /\ [][\A jobID \in JobIDs :
             (/\ inKill[jobID] > 0
              /\ killedJobsQueue # <<>>
              /\ killedJobsQueue' = Tail(killedJobsQueue))
             => /\ inKill'[jobID] = inKill[jobID] - 1
                /\ keyErrors' = keyErrors
                /\ jobID \notin currentJobs']_vars

\* C5's case: a job killed while it waited (never running, the driver's
\* kill never called) is confirmed and its caller has returned
C5_Witness ==
    \E jobID \in JobIDs :
       /\ jobID \in everKilled
       /\ jobID \in WaitingIDs(waitingJobs)
       /\ killCalls[jobID] = 0
       /\ inKill[jobID] = 0
       /\ killedJobsQueue = <<>>
       /\ jobID \notin currentJobs

\* C6: a kill request for a job ID that is in the running set when the
\* worker handles it makes exactly one call to the driver's kill for that ID
\* and leaves the caller blocked; the ID is put on the killed-confirmation
\* queue only by a confirmation round that has queried its exit code and got
\* a non-pending answer for its handle, and that round removes the job from
\* the running set and the handle map.
C6_KillRunning ==
    /\ [][\A jobID \in JobIDs :
             (/\ KillJobsStep
              /\ jobID \in Range(killQueue)
              /\ jobID \in runningJobs)
             => /\ killCalls'[jobID] = killCalls[jobID] + 1
                /\ jobID \notin NewlyKilled
                /\ jobID \in Range(killList')]_vars
    /\ [][~KillJobsStep => killCalls' = killCalls]_vars
    /\ [](\A jobID \in JobIDs : killCalls[jobID] <= 1)
    /\ [](pc = "killWait" =>
             \A jobID \in Range(killList) :
                /\ jobID \in runningJobs
                /\ inKill[jobID] > 0
                /\ jobID \notin Range(killedJobsQueue))
    /\ [][\A jobID \in JobIDs :
             (pc = "killWait" /\ jobID \in NewlyKilled)
             => /\ jobID \in polled'
                /\ schedExit[batchJobIDs[jobID][1]] # Pending
                /\ jobID \notin runningJobs'
                /\ jobID \notin DOMAIN batchJobIDs']_vars

\* C6's case: a running job was killed through the driver and confirmed
C6_Witness ==
    \E jobID \in JobIDs :
       /\ killCalls[jobID] = 1
       /\ jobID \in everKilled
       /\ jobID \notin runningJobs
       /\ inKill[jobID] = 0
       /\ killedJobsQueue = <<>>

\* C7: with no kill requests, a driver whose calls never fail, a scheduler
\* that finishes every submitted job and a worker loop that keeps running,
\* every job ID issueBatchJob has returned is eventually submitted and
\* reported on the updated-job queue.
C7_IssuedEventuallyReported ==
    \A jobID \in JobIDs :
       (nextJobID > jobID)
          ~> (jobID \in Range(submitOrder) /\ jobID \in everUpdated)

\* C7's case: every job was issued, submitted and reported, the last of them
\* after waiting for a slot
C7_Witness ==
    /\ nextJobID > MaxJobs
    /\ Range(submitOrder) = JobIDs
    /\ everUpdated = JobIDs
    /\ updatedJobsQueue # <<>>

\* C8: when the worker is about to poll, the admit step has filled the
\* running set up to the ceiling or emptied the waiting list; and the job
\* that was the oldest waiting one when the previous poll took a job out of
\* the running set has been submitted by then.
C8_AdmitBeforeNextPoll ==
    pc = "checkOnJobs" =>
       /\ waitingJobs = <<>> \/ Cardinality(runningJobs) = MaxLocalJobs
       /\ admitDue <= 0

\* C8's case: a poll freed a slot while a job waited, that job has been
\* submitted since, and the worker is about to poll again with the running
\* set back at the ceiling and another job waiting
C8_Witness ==
    /\ pc = "checkOnJobs"
    /\ admitDue < 0
    /\ Cardinality(runningJobs) = MaxLocalJobs
    /\ waitingJobs # <<>>

\* C9: with_retries invokes the operation at most 3 times; failing twice
\* with CalledProcessError and then succeeding, it returns the third
\* invocation's result after exactly 3 invocations; failing with
\* CalledProcessError every time, it raises the third invocation's error
\* after exactly 3 invocations.
C9_ThreeAttempts ==
    /\ retryResult.calls <= 3
    /\ retryResult # NotCalled =>
          /\ (/\ operation[1].kind = "cpe"
              /\ operation[2].kind = "cpe"
              /\ operation[3].kind = "ok")
             => retryResult =
                   [raised |-> FALSE, val |-> operation[3].val, calls |-> 3]
          /\ (\A i \in 1..3 : operation[i].kind = "cpe")
             => retryResult =
                   [raised |-> TRUE, val |-> operation[3].val, calls |-> 3]

\* C9's case: three failures with different errors, the last one raised
C9_Witness ==
    /\ retryResult.raised
    /\ retryResult.calls = 3
    /\ operation[1] = Cpe(1)
    /\ operation[3] = Cpe(2)

\* the step is a getRunningBatchJobIDs call
IsGetRunningCall == sinceCall' = 0 /\ prevListCalls' = listCalls

\* a call made this many driver list invocations: one remote list, or none
RemoteLists(invocations) == IF invocations > 0 THEN 1 ELSE 0

C11_ShutdownReturns ==
    /\ shut ~> (pc = "done")
    /\ [](pc = "done" => (shut /\ newJobsQueue = <<>> /\ newJob = None))

\* C11's case: the worker has ended after every job was issued, one of them
\* killed while it ran and two taken off the queue ahead of the sentinel
C11_Witness ==
    /\ pc = "done"
    /\ nextJobID > MaxJobs
    /\ \E jobID \in JobIDs : killCalls[jobID] = 1 /\ jobID \in everKilled
    /\ Len(submitOrder) + Len(waitingJobs) = MaxJobs

\* C12: with two caller threads in killBatchJobs at once on disjoint sets of
\* job IDs, no call raises, and a call ends only on the confirmation of the
\* ID it asked for.
C12_ConcurrentKillSafe ==
    [][/\ keyErrors' = keyErrors
       /\ \A jobID \in JobIDs :
             inKill'[jobID] < inKill[jobID]
                => Head(killedJobsQueue) = jobID]_vars

\* the job IDs of the job tuples on the new-job queue
QueuedIDs(queue) == {queue[i][1] : i \in {k \in DOMAIN queue : queue[k] # None}}

\* C13: the issued set currentJobs holds every job ID that is on the new-job
\* queue, in the worker's waiting list or in the worker's running set.
C13_IssuedCoversPending ==
    (QueuedIDs(newJobsQueue) \cup WaitingIDs(waitingJobs) \cup runningJobs)
       \subseteq currentJobs

\* C14: once a job ID has been put on the killed-confirmation queue, no step
\* invokes the driver's submit for it, adds it to the running set or puts a
\* completion report for it on the updated-job queue.
C14_KilledIsTerminal ==
    [][\A jobID \in everKilled :
          /\ Count(submitOrder', jobID) = Count(submitOrder, jobID)
          /\ jobID \in runningJobs' => jobID \in runningJobs
          /\ jobID \in everUpdated' => jobID \in everUpdated]_vars

\* C15: in every state in which runningJobsLock is free, so that another
\* thread may look, the keys of batchJobIDs are exactly the running set, and
\* no job ID is both in the waiting list and in the running set.
C15_HandlesExactlyRunning ==
    ~runningJobsLock =>
       /\ DOMAIN batchJobIDs = runningJobs
       /\ WaitingIDs(waitingJobs) \cap runningJobs = {}

\* C18: every step that changes the running set or the handle map is taken
\* with runningJobsLock held.
C18_MutationsUnderLock ==
    [][(runningJobs' # runningJobs \/ batchJobIDs' # batchJobIDs)
          => (runningJobsLock /\ runningJobsLock')]_vars

\* C16: the worker never looks up the handle of a job ID that the handle
\* map does not have: the RuntimeError of getBatchSystemID is never raised,
\* whatever the callers do, several of them in killBatchJobs at once
\* included.
C16_NoUnknownJobID == pc # "unknownJobID"

\* the turn of createJobs' while loop in which the driver's submit is invoked
SubmitStep == pc = "admit" /\ Len(submitOrder') = Len(submitOrder) + 1

\* the job whose submit was invoked last
LastSubmitted == submitOrder[Len(submitOrder)]

\* C17: when the driver's submit has failed on all 3 attempts for a job, the
\* error leaves the worker loop (the worker ends, and not by the sentinel)
\* and the job is in neither the running set nor the handle map; the dead
\* worker changes nothing afterwards, and the job has no report on the
\* updated-job queue, then or later.
C17_SubmitFailureIsFatal ==
    /\ [][(SubmitStep /\ submitFailures' = 3)
            => /\ pc' = "raised"
               /\ Head(waitingJobs)[1] \notin runningJobs'
               /\ Head(waitingJobs)[1] \notin DOMAIN batchJobIDs']_vars
    /\ [][pc = "raised"
            => /\ pc' = "raised"
               /\ UNCHANGED <<runningJobs, batchJobIDs, everUpdated,
                              waitingJobs, submitOrder>>]_vars
    /\ []((pc = "raised" /\ submitFailures = 3)
            => /\ LastSubmitted \notin runningJobs
               /\ LastSubmitted \notin DOMAIN batchJobIDs
               /\ LastSubmitted \notin everUpdated)

\* C17's case: the submit of the second job has failed three times, after the
\* first job ran and was reported; the worker is dead
C17_Witness ==
    /\ pc = "raised"
    /\ submitFailures = 3
    /\ Len(submitOrder) = 2
    /\ everUpdated = {submitOrder[1]}
    /\ LastSubmitted \notin runningJobs

\* C19: what getRunningBatchJobIDs returned last (the set the cache holds)
\* has only job IDs of the most recent remote list or of the local
\* collaborator's running set at the time of that call: no local ID of an
\* earlier call is left in it.
C19_ResultFromListAndLocal ==
    getRunningCache \subseteq (listedLatest \cup localLatest)

\* C20: whenever getUpdatedBatchJob takes an item (jobID, exitCode) off the
\* updated-job queue, jobID is in the issued set, so that
\* currentJobs.remove(jobID) cannot fail.
C20_UpdatedJobIsIssued ==
    [][(updatedJobsQueue # <<>> /\ updatedJobsQueue' = Tail(updatedJobsQueue))
          => Head(updatedJobsQueue)[1] \in currentJobs]_vars

====
